---- MODULE Spec2Model ----
(***************************************************************************)
(* Model of malloclab/mm.c: an implicit-list allocator with first-fit      *)
(* placement and forward coalescing.                                       *)
(*                                                                         *)
(* Memory is the arena handed out by mem_sbrk, seen as 8-byte words        *)
(* (size_t, the header type of block_t) starting at heap_start.  Every     *)
(* size the allocator computes is a multiple of 8 (GET_SIZE masks the low  *)
(* three bits, asize is a multiple of DSIZE), so every address it forms is *)
(* heap_start + 8k.  A word holds a value modulo WordMod; pointers have    *)
(* the same width.  A word nobody has written yet is Indet: its content is *)
(* whatever the arena held (memlib hands out memory it never clears, and   *)
(* the driver reuses the arena across sessions).  Reveal fixes the content *)
(* of such a word, to any value of Garbage, before the allocator reads it. *)
(***************************************************************************)
EXTENDS Integers, Naturals, Sequences, FiniteSets, TLC

(* ---- program constants (mm.c:46-48) ---- *)
WSIZE == 4
DSIZE == 8
OVERHEAD == 8
MinBlock == 16

(* ---- bounds of the model ---- *)
WordBits == 8          \* width of size_t and of a pointer, scaled down
HeapWords == 6         \* mem_sbrk refuses to grow the heap past this many 8-byte words
MaxCalls == 3          \* length of the runs in which a request's adjusted size wraps around
MaxWriteWords == 2     \* the caller writes the first MaxWriteWords words of a payload

WordMod == 2 ^ WordBits
NCells == HeapWords + 1   \* one more word of memory exists past the limit of the break
Cells == 0 .. (NCells - 1)
Indet == -1
Word == 0 .. (WordMod - 1)

heap_start == WSIZE    \* mm_init: mem_sbrk(WSIZE) returned the arena base 0; heap_start = base + WSIZE

(* request sizes tried: one per adjusted size 16, 24 and 40, and two whose adjusted
   size wraps around, to 0 and to 8 *)
Sizes == {1, 16, 32, WordMod - 8, WordMod - 1}
Garbage == {0, 24}
Data == {33}

VARIABLES mem, mem_brk, heap_end, live, last, status, calls, wrapped
vars == <<mem, mem_brk, heap_end, live, last, status, calls, wrapped>>

(* ---- words, addresses ---- *)
PACK(size, alloc) == IF size % 2 = 1 THEN size ELSE size + alloc   \* size | alloc, alloc in {0, 1}
GET_SIZE(w) == w - (w % 8)
GET_ALLOC(w) == w % 2
Wrap(x) == x % WordMod

\* the null pointer: addresses are counted from the base of the arena, whose first
\* word is the padding mm_init takes, so no payload is at 0 and HDRP(NULL) is outside
\* the arena
NULL == 0

InMem(a) == /\ a >= heap_start
            /\ (a - heap_start) % 8 = 0
            /\ (a - heap_start) \div 8 < NCells
CellOf(a) == (a - heap_start) \div 8
AddrOf(c) == heap_start + 8 * c
Known(m, a) == InMem(a) /\ m[CellOf(a)] # Indet
GET(m, a) == m[CellOf(a)]
PUT(m, a, val) == [m EXCEPT ![CellOf(a)] = val]
HDRP(p) == Wrap(p - OVERHEAD + WordMod)
GET_PLD_PTR(bp) == Wrap(bp + OVERHEAD)
NEXT_BLKP(m, bp) == Wrap(bp + GET_SIZE(GET(m, bp)))

(* ---- the growth primitive (memlib, not part of the sources modelled) ---- *)
\* mem_sbrk(incr): the old break, or failure when the arena cannot grow by incr bytes
mem_sbrk(brk, incr) ==
    IF (brk - heap_start) + incr > 8 * HeapWords
    THEN [ok |-> FALSE, bp |-> 0, brk |-> brk]
    ELSE [ok |-> TRUE, bp |-> brk, brk |-> brk + incr]

(* ---- mm_malloc and its helpers ---- *)
\* the adjusted block size of mm_malloc, in size_t arithmetic
Adjust_floor(size) ==
    IF size <= DSIZE THEN DSIZE + OVERHEAD
    ELSE Wrap(OVERHEAD + (size \div DSIZE) * DSIZE)
Adjust(size) ==
    IF size <= DSIZE THEN DSIZE + OVERHEAD
    ELSE Wrap(OVERHEAD + (Wrap(size + (DSIZE - 1)) \div DSIZE) * DSIZE)

\* the loop of find_fit from cursor bp.  The walk is a function of the memory, so a
\* walk that has advanced NCells times without ending has come back to a word it
\* already visited and never ends (res = "hang").  A cursor outside the modelled
\* memory is res = "fault", a cursor on a word of unknown content is res = "indet".
RECURSIVE Scan(_, _, _, _, _)
Scan(m, he, asize, bp, fuel) ==
    IF bp = he THEN [res |-> "none", bp |-> he]
    ELSE IF ~InMem(bp) THEN [res |-> "fault", bp |-> bp]
    ELSE IF ~Known(m, bp) THEN [res |-> "indet", bp |-> bp]
    ELSE IF GET_ALLOC(GET(m, bp)) = 0 /\ GET_SIZE(GET(m, bp)) >= asize
         THEN [res |-> "fit", bp |-> bp]
    ELSE IF fuel = 0 THEN [res |-> "hang", bp |-> bp]
    ELSE Scan(m, he, asize, NEXT_BLKP(m, bp), fuel - 1)

find_fit(m, he, asize) == Scan(m, he, asize, heap_start, NCells)

\* place: the memory after placing asize at bp; ok is FALSE when the header of the
\* remainder would be written outside the modelled memory
place_thin(m, bp, asize) ==
    LET csize == GET_SIZE(GET(m, bp)) IN
    IF Wrap(csize - asize + WordMod) >= DSIZE
    THEN LET m1 == PUT(m, bp, PACK(asize, 1))
             next_bp == NEXT_BLKP(m1, bp)
         IN  IF InMem(next_bp)
             THEN [ok |-> TRUE, m |-> PUT(m1, next_bp, PACK(Wrap(csize - asize + WordMod), 0))]
             ELSE [ok |-> FALSE, m |-> m1]
    ELSE [ok |-> TRUE, m |-> PUT(m, bp, PACK(csize, 1))]
place(m, bp, asize) ==
    LET csize == GET_SIZE(GET(m, bp)) IN
    IF Wrap(csize - asize + WordMod) >= MinBlock
    THEN LET m1 == PUT(m, bp, PACK(asize, 1))
             next_bp == NEXT_BLKP(m1, bp)
         IN  IF InMem(next_bp)
             THEN [ok |-> TRUE, m |-> PUT(m1, next_bp, PACK(Wrap(csize - asize + WordMod), 0))]
             ELSE [ok |-> FALSE, m |-> m1]
    ELSE [ok |-> TRUE, m |-> PUT(m, bp, PACK(csize, 1))]

\* the number of bytes extend_heap(words) asks of mem_sbrk: words made even, times WSIZE
ExtendSize(words) ==
    LET w == IF words % 2 = 1 THEN words + 1 ELSE words
    IN  Wrap(w * WSIZE)

\* extend_heap(words): the block pointer (the old break) and the new heap_end
extend_heap_early(brk, he, words) ==
    LET size == ExtendSize(words)
        r == mem_sbrk(brk, size)
    IN  IF ~r.ok THEN [ok |-> FALSE, bp |-> 0, brk |-> brk, he |-> he + size]
        ELSE [ok |-> TRUE, bp |-> r.bp, brk |-> r.brk, he |-> he + size]
extend_heap(brk, he, words) ==
    LET size == ExtendSize(words)
        r == mem_sbrk(brk, size)
    IN  IF ~r.ok THEN [ok |-> FALSE, bp |-> 0, brk |-> brk, he |-> he]
        ELSE [ok |-> TRUE, bp |-> r.bp, brk |-> r.brk, he |-> he + size]

\* one call of mm_malloc(size) on memory m: st is "ok" (ret is the payload pointer),
\* "exit" (exit(1) after a failed extension), "hang", "fault", or "indet" when the
\* call reads a word whose content is not fixed yet
MallocCall(m, brk, he, size) ==
    LET asize == Adjust(size)
        f == find_fit(m, he, asize)
        none == [st |-> f.res, m |-> m, brk |-> brk, he |-> he, ret |-> 0, called |-> FALSE,
                 at |-> f.bp]
    IN  IF f.res = "fit"
        THEN LET pl == place(m, f.bp, asize)
             IN  [none EXCEPT !.st = IF pl.ok THEN "ok" ELSE "fault", !.m = pl.m,
                              !.ret = GET_PLD_PTR(f.bp)]
        ELSE IF f.res # "none" THEN none
        ELSE LET e == extend_heap(brk, he, asize \div WSIZE)
             IN  IF ~e.ok THEN [none EXCEPT !.st = "exit", !.called = TRUE,
                                            !.brk = e.brk, !.he = e.he]
                 ELSE IF ~InMem(e.bp) THEN [none EXCEPT !.st = "fault", !.called = TRUE]
                 ELSE IF ~Known(m, e.bp) THEN [none EXCEPT !.st = "indet", !.at = e.bp]
                 ELSE LET pl == place(m, e.bp, asize)
                      IN  [st |-> IF pl.ok THEN "ok" ELSE "fault", m |-> pl.m,
                           brk |-> e.brk, he |-> e.he, ret |-> GET_PLD_PTR(e.bp),
                           called |-> TRUE, at |-> e.bp]

(* ---- mm_free and coalesce ---- *)
\* coalesce(bp): st is "ok", "fault" (the next header lies outside the modelled
\* memory) or "indet" (its content is not fixed yet, at address at)
coalesce_drop(m, he, bp) ==
    LET next_block == NEXT_BLKP(m, bp) IN
    IF ~(next_block < he) THEN [st |-> "ok", m |-> m, at |-> bp]
    ELSE IF ~InMem(next_block) THEN [st |-> "fault", m |-> m, at |-> next_block]
    ELSE IF ~Known(m, next_block) THEN [st |-> "indet", m |-> m, at |-> next_block]
    ELSE IF GET_ALLOC(GET(m, bp)) = 0 /\ GET_ALLOC(GET(m, next_block)) = 0
         THEN LET size == GET_SIZE(GET(m, next_block))
              IN  [st |-> "ok", m |-> PUT(m, bp, PACK(size, 0)), at |-> bp]
    ELSE [st |-> "ok", m |-> m, at |-> bp]
coalesce(m, he, bp) ==
    LET next_block == NEXT_BLKP(m, bp) IN
    IF ~(next_block < he) THEN [st |-> "ok", m |-> m, at |-> bp]
    ELSE IF ~InMem(next_block) THEN [st |-> "fault", m |-> m, at |-> next_block]
    ELSE IF ~Known(m, next_block) THEN [st |-> "indet", m |-> m, at |-> next_block]
    ELSE IF GET_ALLOC(GET(m, bp)) = 0 /\ GET_ALLOC(GET(m, next_block)) = 0
         THEN LET size == Wrap(GET_SIZE(GET(m, bp)) + GET_SIZE(GET(m, next_block)))
              IN  [st |-> "ok", m |-> PUT(m, bp, PACK(size, 0)), at |-> bp]
    ELSE [st |-> "ok", m |-> m, at |-> bp]

\* one call of mm_free(p) on memory m
FreeCall(m, he, p) ==
    LET blockp == HDRP(p) IN
    IF ~InMem(blockp) THEN [st |-> "fault", m |-> m, at |-> blockp]
    ELSE IF ~Known(m, blockp) THEN [st |-> "indet", m |-> m, at |-> blockp]
    ELSE LET size == GET_SIZE(GET(m, blockp))
         IN  coalesce(PUT(m, blockp, PACK(size, 0)), he, blockp)

(* ---- mm_realloc ---- *)
\* copying k bytes (1..8) of word src over word dst, low bytes first (little endian)
\* (a word of unknown content is copied as it is: the copy holds the same unknown)
CopyWord(dst, src, k) ==
    IF k = 8 \/ 8 * k >= WordBits THEN src
    ELSE IF src = Indet \/ dst = Indet THEN Indet
    ELSE (src % (2 ^ (8 * k))) + (dst - (dst % (2 ^ (8 * k))))

CopyLen(n, i) == IF 8 * (i + 1) <= n THEN 8 ELSE n - 8 * i   \* bytes copied into word i
NWords(n) == (n + 7) \div 8

\* words of the copy done in the order given by seq (a sequence of word indexes)
RECURSIVE CopySeq(_, _, _, _, _)
CopySeq(m, dst, src, n, seq) ==
    IF seq = << >> THEN m
    ELSE LET i == Head(seq)
             w == CopyWord(GET(m, dst + 8 * i), GET(m, src + 8 * i), CopyLen(n, i))
         IN  CopySeq(PUT(m, dst + 8 * i, w), dst, src, n, Tail(seq))

\* memcpy(dst, src, n): the memories it can leave.  The two copy orders differ only
\* when the ranges overlap, which memcpy leaves undefined.
memcpy(m, dst, src, n) ==
    LET nw == NWords(n)
        up == [i \in 1 .. nw |-> i - 1]
        down == [i \in 1 .. nw |-> nw - i]
    IN  {CopySeq(m, dst, src, n, up), CopySeq(m, dst, src, n, down)}

\* every word memcpy(dst, src, n) touches is in the modelled memory
CopyInMem(dst, src, n) ==
    \A i \in 0 .. (NWords(n) - 1) : InMem(dst + 8 * i) /\ InMem(src + 8 * i)

\* the number of bytes mm_realloc copies: the size field of the old header, or size
CopySize(m, ptr, size) ==
    LET copySize == GET_SIZE(GET(m, HDRP(ptr)))
    IN  IF size < copySize THEN size ELSE copySize

\* the calls of mm_realloc(ptr, size) on memory m: one result per outcome of memcpy
ReallocCalls(m, brk, he, ptr, size) ==
    LET a == MallocCall(m, brk, he, size) IN
    IF a.st # "ok" THEN {a}
    ELSE IF ~InMem(HDRP(ptr)) THEN {[a EXCEPT !.st = "fault", !.at = HDRP(ptr)]}
    ELSE IF ~Known(a.m, HDRP(ptr)) THEN {[a EXCEPT !.st = "indet", !.at = HDRP(ptr)]}
    ELSE LET copySize == CopySize(a.m, ptr, size)
         IN  IF ~CopyInMem(a.ret, ptr, copySize) THEN {[a EXCEPT !.st = "fault"]}
             ELSE { LET f == FreeCall(m2, a.he, ptr)
                    IN  [a EXCEPT !.st = f.st, !.m = f.m, !.at = f.at]
                    : m2 \in memcpy(a.m, a.ret, ptr, copySize) }

(* ---- the state machine ---- *)
(* ---- what an observer sees of the heap ---- *)
\* the blocks of [heap_start, heap_end): those met by stepping from bp by the size in
\* each header, as find_fit steps, until the cursor leaves the heap
RECURSIVE BlocksFrom(_, _, _, _)
BlocksFrom(m, he, bp, fuel) ==
    IF bp >= he \/ ~Known(m, bp) \/ fuel = 0 THEN << >>
    ELSE <<bp>> \o BlocksFrom(m, he, NEXT_BLKP(m, bp), fuel - 1)

Blocks(m, he) == BlocksFrom(m, he, heap_start, NCells)

\* the cursor the walk above stops at
RECURSIVE EndFrom(_, _, _, _)
EndFrom(m, he, bp, fuel) ==
    IF bp >= he \/ ~Known(m, bp) \/ fuel = 0 THEN bp
    ELSE EndFrom(m, he, NEXT_BLKP(m, bp), fuel - 1)

RECURSIVE SumSeq(_)
SumSeq(q) == IF q = << >> THEN 0 ELSE Head(q) + SumSeq(Tail(q))

SizeAt(m, bp) == GET_SIZE(GET(m, bp))
IsFree(m, bp) == GET_ALLOC(GET(m, bp)) = 0
Range(q) == {q[i] : i \in DOMAIN q}

\* the total number of bytes held in free blocks
FreeBytes(m, he) ==
    LET b == Blocks(m, he)
    IN  SumSeq([i \in DOMAIN b |-> IF IsFree(m, b[i]) THEN SizeAt(m, b[i]) ELSE 0])

\* the record kept of the last completed call: the call, its arguments and result,
\* whether it called mem_sbrk; for mm_malloc, heap_end and the free bytes before it;
\* for the mm_free of the pointer the call before had just returned from mm_malloc,
\* the size asked of that mm_malloc (after) and what that call recorded;
\* soon tells that the caller has stored nothing since
NoCall == [op |-> "init", size |-> 0, ptr |-> 0, ret |-> 0, called |-> FALSE,
           he0 |-> 0, free0 |-> 0, after |-> -1, soon |-> FALSE]
Rec(op, size, ptr, ret, called) ==
    LET back == op = "free" /\ last.op = "malloc" /\ last.ret = ptr /\ last.soon IN
    [op |-> op, size |-> size, ptr |-> ptr, ret |-> ret, called |-> called,
     he0 |-> IF op = "malloc" THEN heap_end ELSE IF back THEN last.he0 ELSE 0,
     free0 |-> IF op = "malloc" THEN FreeBytes(mem, heap_end)
               ELSE IF back THEN last.free0 ELSE 0,
     after |-> IF back THEN last.size ELSE -1,
     soon |-> TRUE]

Without(p) == [q \in (DOMAIN live) \ {p} |-> live[q]]
With(l, p, size) == [q \in (DOMAIN l) \cup {p} |-> IF q = p THEN size ELSE l[q]]

\* what the word at heap_start can hold after mm_init: PUT(bp, 0) stores a size_t at
\* the arena base, so it clears the low half of that word; the high half holds what
\* the arena held, nothing or a size larger than any heap
FirstWord == {0, WordMod \div 2}

\* the state after mm_init: the padding word is taken from the arena, the heap is
\* empty, the words other than the first hold what the arena held
Init ==
    /\ mem \in {[c \in Cells |-> IF c = 0 THEN h ELSE Indet] : h \in FirstWord}
    /\ mem_brk = heap_start
    /\ heap_end = heap_start
    /\ live = << >>
    /\ last = NoCall
    /\ status = "run"
    /\ calls = 0
    /\ wrapped = FALSE

\* the process ends (exit(1)), never returns ("hang") or leaves the modelled memory
\* ("fault"): nothing of the heap is observed any more
Stop(st) ==
    /\ status' = st
    /\ mem' = [c \in Cells |-> Indet]
    /\ mem_brk' = heap_start
    /\ heap_end' = heap_start
    /\ live' = << >>
    /\ last' = NoCall

\* the request size + 15 exceeds the largest size_t: the adjusted size wraps around
Wraps(size) == size + (DSIZE - 1) + OVERHEAD >= WordMod
\* calls counts the calls made, up to MaxCalls; a run with a wrapping request in it
\* (wrapped) has at most MaxCalls calls, the other runs are not bounded
Budget(size) ==
    /\ (wrapped \/ Wraps(size)) => calls < MaxCalls
    /\ calls' = IF calls < MaxCalls THEN calls + 1 ELSE calls
    /\ wrapped' = (wrapped \/ Wraps(size))

mm_malloc(size) ==
    /\ status = "run"
    /\ Budget(size)
    /\ LET r == MallocCall(mem, mem_brk, heap_end, size) IN
       /\ r.st # "indet"
       /\ IF r.st = "ok"
          THEN /\ mem' = r.m
               /\ mem_brk' = r.brk
               /\ heap_end' = r.he
               /\ live' = With(live, r.ret, size)
               /\ last' = Rec("malloc", size, 0, r.ret, r.called)
               /\ UNCHANGED status
          ELSE Stop(r.st)

mm_free(p) ==
    /\ status = "run"
    /\ Budget(0)
    /\ p \in DOMAIN live
    /\ LET r == FreeCall(mem, heap_end, p) IN
       /\ r.st # "indet"
       /\ IF r.st = "ok"
          THEN /\ mem' = r.m
               /\ live' = Without(p)
               /\ last' = Rec("free", 0, p, 0, FALSE)
               /\ UNCHANGED <<mem_brk, heap_end, status>>
          ELSE Stop(r.st)

mm_realloc(ptr, size) ==
    /\ status = "run"
    /\ ptr \in (DOMAIN live) \cup {NULL}
    /\ Budget(size)
    /\ \E r \in ReallocCalls(mem, mem_brk, heap_end, ptr, size) :
       /\ r.st # "indet"
       /\ IF r.st = "ok"
          THEN /\ mem' = r.m
               /\ mem_brk' = r.brk
               /\ heap_end' = r.he
               /\ live' = With(Without(ptr), r.ret, size)
               /\ last' = Rec("realloc", size, ptr, r.ret, r.called)
               /\ UNCHANGED status
          ELSE Stop(r.st)

\* the caller stores v in word i of a payload it was given (it asked for live[p] bytes)
Write(p, i, v) ==
    /\ status = "run"
    /\ p \in DOMAIN live
    /\ i < MaxWriteWords
    /\ 8 * i < live[p]
    /\ InMem(p + 8 * i)
    /\ mem' = PUT(mem, p + 8 * i, v)
    /\ last' = [last EXCEPT !.soon = FALSE]
    /\ UNCHANGED <<mem_brk, heap_end, live, status, calls, wrapped>>

\* the addresses of words of unknown content that some call would read now
NeedReveal ==
    {r.at : r \in {x \in {MallocCall(mem, mem_brk, heap_end, s) : s \in Sizes} : x.st = "indet"}}
    \cup {r.at : r \in {x \in {FreeCall(mem, heap_end, p) : p \in DOMAIN live} : x.st = "indet"}}
    \cup {r.at : r \in {x \in UNION {ReallocCalls(mem, mem_brk, heap_end, p, s) :
                                       p \in (DOMAIN live) \cup {NULL}, s \in Sizes} :
                           x.st = "indet"}}

\* the content of a word the arena never cleared becomes known: it can be anything
Reveal(a, g) ==
    /\ status = "run"
    /\ ~Known(mem, a)
    /\ mem' = PUT(mem, a, g)
    /\ UNCHANGED <<mem_brk, heap_end, live, last, status, calls, wrapped>>

Next ==
    \/ \E size \in Sizes : mm_malloc(size)
    \/ \E p \in DOMAIN live : mm_free(p)
    \/ \E p \in DOMAIN live, size \in Sizes : mm_realloc(p, size)
    \/ \E size \in Sizes : mm_realloc(NULL, size)
    \/ \E p \in DOMAIN live, i \in Cells, v \in Data : Write(p, i, v)
    \/ \E a \in NeedReveal, g \in Garbage : Reveal(a, g)

Spec == Init /\ [][Next]_vars

TypeOK ==
    /\ mem \in [Cells -> Word \cup {Indet}]
    /\ status \in {"run", "exit", "hang", "fault"}
    /\ mem_brk = heap_end

\* the step is the call mm_malloc(size), mm_free(p), mm_realloc(p, size): the record
\* of the last call is looked at first, the call is then computed
MallocStep(size) ==
    /\ status' = "run" => (last'.op = "malloc" /\ last'.size = size /\ last'.soon)
    /\ mm_malloc(size)
FreeStep(p) ==
    /\ status' = "run" => (last'.op = "free" /\ last'.ptr = p /\ last'.soon)
    /\ mm_free(p)
ReallocStep(p, size) ==
    /\ status' = "run" => (last'.op = "realloc" /\ last'.ptr = p /\ last'.size = size
                            /\ last'.soon)
    /\ mm_realloc(p, size)

\* a step that is a call of the allocator
CallStep ==
    \/ \E size \in Sizes : MallocStep(size)
    \/ \E p \in DOMAIN live : FreeStep(p)
    \/ \E p \in (DOMAIN live) \cup {NULL}, size \in Sizes : ReallocStep(p, size)

(* ======================= the claims ======================= *)

\* C1 (no-gap invariant): in every state reached by allocate, free and reallocate
\* calls, stepping from heap_start by the header sizes lands exactly on heap_end, and
\* heap_end = heap_start + the sum of the sizes of the blocks met.
C1_NoGap ==
    status = "run" =>
        /\ EndFrom(mem, heap_end, heap_start, NCells) = heap_end
        /\ LET b == Blocks(mem, heap_end)
           IN  heap_end = heap_start + SumSeq([i \in DOMAIN b |-> SizeAt(mem, b[i])])

\* two blocks next to each other in heap order, both marked free
AdjacentFree(m, he) ==
    LET b == Blocks(m, he)
    IN  \E i \in DOMAIN b : i + 1 \in DOMAIN b /\ IsFree(m, b[i]) /\ IsFree(m, b[i + 1])

\* C2 (no-adjacent-free invariant): after a free call returns, also the one made
\* inside reallocate, no two heap-order-adjacent blocks are both free.
C2_NoAdjacentFree ==
    (status = "run" /\ last.op \in {"free", "realloc"}) => ~AdjacentFree(mem, heap_end)

\* C3 (free ordering): A and B allocated and adjacent, B followed by an allocated
\* block; free(A) then free(B) leaves one free block at A of size size(A) + size(B).
C3_FreeOrder ==
    [][\A B \in DOMAIN live :
        LET a == HDRP(last.ptr)
            b == HDRP(B)
        IN  (/\ last.op = "free"
             /\ Known(mem, a) /\ Known(mem, b)
             /\ IsFree(mem, a) /\ ~IsFree(mem, b)
             /\ b = a + SizeAt(mem, a)
             /\ b + SizeAt(mem, b) < heap_end
             /\ Known(mem, b + SizeAt(mem, b))
             /\ ~IsFree(mem, b + SizeAt(mem, b))
             /\ FreeStep(B))
            => (/\ status' = "run"
                /\ GET(mem', a) = PACK(SizeAt(mem, a) + SizeAt(mem, b), 0))]_vars

\* the words of the payload at p that hold the n bytes the caller asked for
PayloadWords(p, n) == {a \in {p + 8 * i : i \in 0 .. NCells} : a < p + n /\ InMem(a)}

\* C4 (payload integrity): no call of the allocator writes to the payload of a live
\* block other than the block the call frees or reallocates.
C4_PayloadIntegrity ==
    [][(CallStep /\ status' = "run") =>
         \A p \in (DOMAIN live) \cap (DOMAIN live') :
            (p # last'.ptr) =>
               \A a \in PayloadWords(p, live[p]) : GET(mem', a) = GET(mem, a)]_vars

\* C5 (alignment invariant): as long as no request's adjusted size wrapped around,
\* every block of the heap has a size that is a multiple of 8 and at least 16.
C5_Alignment ==
    (status = "run" /\ ~wrapped) =>
        \A bp \in Range(Blocks(mem, heap_end)) :
            SizeAt(mem, bp) % 8 = 0 /\ SizeAt(mem, bp) >= MinBlock

\* no request has wrapped, and an allocate has just reused a free block that is
\* followed by a free block and a further block: freed, reused and extension blocks
C5_Witness ==
    /\ status = "run" /\ ~wrapped
    /\ last.op = "malloc" /\ ~last.called /\ last.soon
    /\ LET nx == NEXT_BLKP(mem, HDRP(last.ret))
       IN  /\ nx < heap_end
           /\ IsFree(mem, nx)
           /\ NEXT_BLKP(mem, nx) < heap_end

\* C6 (sufficient payload): for every request size of the size word, a successful
\* allocate(size) returns a block marked allocated, of size at least 16, whose size
\* minus the 8-byte header is at least size.
C6_SufficientPayload ==
    (status = "run" /\ last.op = "malloc" /\ last.soon) =>
        LET bp == HDRP(last.ret)
        IN  /\ Known(mem, bp)
            /\ ~IsFree(mem, bp)
            /\ SizeAt(mem, bp) >= MinBlock
            /\ SizeAt(mem, bp) - OVERHEAD >= last.size

\* the free blocks of the heap that can hold asize bytes
Fits(m, he, asize) ==
    {bp \in Range(Blocks(m, he)) : IsFree(m, bp) /\ SizeAt(m, bp) >= asize}
Lowest(S) == CHOOSE x \in S : \A y \in S : x <= y

\* C7 (first-fit placement): when some free block of the heap has size >= asize,
\* allocate returns the payload of the lowest such block and does not call the growth
\* primitive; the growth primitive is called only when there is no such block.
C7_FirstFit ==
    [][\A size \in Sizes :
        MallocStep(size) =>
            LET F == Fits(mem, heap_end, Adjust(size))
            IN  IF F # {}
                THEN /\ status' = "run"
                     /\ last'.ret = GET_PLD_PTR(Lowest(F))
                     /\ ~last'.called
                     /\ heap_end' = heap_end
                ELSE status' = "run" => last'.called]_vars

\* C8 (round-trip reuse): p = allocate(n), then free(p), then allocate(n): the second
\* allocate succeeds without calling the growth primitive, heap_end unchanged.
C8_RoundTripReuse ==
    [][\A size \in Sizes :
        (last.op = "free" /\ last.soon /\ last.after = size /\ MallocStep(size)) =>
            (status' = "run" /\ ~last'.called /\ heap_end' = heap_end)]_vars

LowBytes(w, k) == IF k = 8 \/ 8 * k >= WordBits \/ w = Indet THEN w ELSE w % (2 ^ (8 * k))
Min(a, b) == IF a < b THEN a ELSE b

\* C10 (reallocate correctness): q = reallocate(p, m) returns a block with at least
\* m payload bytes whose first min(m, original size) bytes are those of p's payload
\* before the call; afterwards p's block is free and q's block is allocated.
C10_Realloc ==
    [][\A p \in DOMAIN live, m \in Sizes :
        (ReallocStep(p, m) /\ status' = "run") =>
            LET q == last'.ret
                n == Min(m, live[p])
            IN  /\ SizeAt(mem', HDRP(q)) - OVERHEAD >= m
                /\ \A i \in 0 .. (NWords(n) - 1) :
                      /\ InMem(q + 8 * i)
                      /\ LowBytes(GET(mem', q + 8 * i), CopyLen(n, i))
                            = LowBytes(GET(mem, p + 8 * i), CopyLen(n, i))
                /\ IsFree(mem', HDRP(p))
                /\ ~IsFree(mem', HDRP(q))]_vars

\* C11 (reallocate accepts a null pointer): reallocate(null, n) touches no header
\* outside the heap, frees no block, and returns a block with at least n payload
\* bytes or an error.
C11_ReallocNull ==
    [][\A size \in Sizes :
        ReallocStep(NULL, size) =>
            /\ status' \in {"run", "exit"}
            /\ status' = "run" =>
                  /\ \A p \in DOMAIN live : p \in DOMAIN live'
                  /\ SizeAt(mem', HDRP(last'.ret)) - OVERHEAD >= size]_vars

\* what a call that ended in exit(1) leaves: mem_sbrk was called, and the memory, the
\* break and heap_end are those of before the call
Intact(r) == r.called /\ r.m = mem /\ r.he = heap_end /\ r.brk = mem_brk

\* C12 (growth failure leaves the allocator intact): when allocate, or the allocate
\* inside reallocate, finds no fit and the growth primitive fails, the primitive was
\* called once and heap_end and every header are as before the call; in reallocate
\* the old block is still allocated and its payload unchanged.
C12_GrowthFailure ==
    status = "run" =>
       /\ \A size \in Sizes :
            LET r == MallocCall(mem, mem_brk, heap_end, size)
            IN  r.st = "exit" => Intact(r)
       /\ \A p \in DOMAIN live, size \in Sizes :
            \A r \in ReallocCalls(mem, mem_brk, heap_end, p, size) :
                r.st = "exit" =>
                    /\ Intact(r)
                    /\ ~wrapped => ~IsFree(r.m, HDRP(p))

\* a request could not be served after some calls were, none of them wrapping
C12_Witness == status = "exit" /\ calls > 1 /\ ~wrapped

\* C13 (heap extension yields one well-formed block): when allocate finds no fit and
\* the growth primitive succeeds, the block returned starts at the old heap_end, is
\* allocated, and its header size is the number of bytes added, whatever the words
\* of the arena held before the call.  (Stated for the requests whose adjusted size
\* does not wrap around: C6 covers the others.)
C13_Extension ==
    [][\A size \in Sizes :
        (~Wraps(size) /\ MallocStep(size) /\ status' = "run" /\ last'.called) =>
            /\ last'.ret = GET_PLD_PTR(heap_end)
            /\ GET(mem', heap_end) = PACK(heap_end' - heap_end, 1)]_vars

\* the words of mem' other than those at the addresses of A are those of mem
SameBut(A) == \A c \in Cells : AddrOf(c) \notin A => mem'[c] = mem[c]

\* C14 (split policy): when allocate places a request of adjusted size asize in a
\* free block of size csize found by the search, then if csize - asize >= 16 the
\* block becomes an allocated block of asize followed by a free block of
\* csize - asize, otherwise the whole block is marked allocated; no other header
\* changes.
C14_Split ==
    [][\A size \in Sizes :
        (MallocStep(size) /\ status' = "run" /\ ~last'.called) =>
            LET bp == HDRP(last'.ret)
                csize == SizeAt(mem, bp)
                asize == Adjust(size)
            IN  IF csize - asize >= MinBlock
                THEN /\ GET(mem', bp) = PACK(asize, 1)
                     /\ GET(mem', bp + asize) = PACK(csize - asize, 0)
                     /\ SameBut({bp, bp + asize})
                ELSE /\ GET(mem', bp) = PACK(csize, 1)
                     /\ SameBut({bp})]_vars

\* C15 (effect and frame of free): free(p) clears the allocated flag of p's header;
\* if the next block starts before heap_end and is free the header's size becomes the
\* sum of the two sizes, otherwise the size is unchanged; no other header and neither
\* end of the heap changes.
C15_Free ==
    [][\A p \in DOMAIN live :
        (FreeStep(p) /\ status' = "run") =>
            LET bp == HDRP(p)
                size == SizeAt(mem, bp)
                nx == bp + size
            IN  /\ heap_end' = heap_end
                /\ SameBut({bp})
                /\ GET(mem', bp) = IF nx < heap_end /\ IsFree(mem, nx)
                                    THEN PACK(size + SizeAt(mem, nx), 0)
                                    ELSE PACK(size, 0)]_vars

\* C17 (allocator writes stay inside the heap): every word a call of allocate, free
\* or reallocate writes is at an address a with heap_start <= a < heap_end, heap_end
\* taken after the call; nothing is written at or beyond heap_end.
C17_WritesInside ==
    [][(CallStep /\ status' = "run") =>
          \A c \in Cells :
             mem'[c] # mem[c] => (heap_start <= AddrOf(c) /\ AddrOf(c) < heap_end')]_vars

\* the payload range [p, p + size - 8) of the block of pointer p, as a pair of bounds
PayloadLo(p) == p
PayloadHi(p) == p + SizeAt(mem, HDRP(p)) - OVERHEAD

\* C18 (live payloads are disjoint): the payload ranges [p, p + size - 8) of the live
\* pointers lie inside [heap_start, heap_end) and overlap neither each other nor any
\* block header.
C18_Disjoint ==
    status = "run" =>
        \A p \in DOMAIN live :
            /\ Known(mem, HDRP(p))
            /\ heap_start <= HDRP(p) /\ PayloadHi(p) <= heap_end
            /\ \A q \in (DOMAIN live) \ {p} :
                  Known(mem, HDRP(q)) =>
                     (PayloadHi(p) <= PayloadLo(q) \/ PayloadHi(q) <= PayloadLo(p))
            /\ \A b \in Range(Blocks(mem, heap_end)) :
                  ~(PayloadLo(p) <= b /\ b < PayloadHi(p))

\* C19 (reallocate copies only payload bytes): for every live pointer p and every size,
\* the bytes mm_realloc(p, size) reads, [p, p + copySize), lie inside the old payload
\* [p, p + old_size - 8), so neither in the next header nor at or beyond heap_end, and
\* the bytes it writes, [ret, ret + copySize), lie inside the payload of the new block.
C19_CopyInside ==
    status = "run" =>
        \A p \in DOMAIN live, size \in Sizes :
            LET a == MallocCall(mem, mem_brk, heap_end, size)
            IN  (a.st = "ok" /\ Known(mem, HDRP(p)) /\ Known(a.m, HDRP(p))) =>
                   LET copySize == CopySize(a.m, p, size)
                   IN  /\ p + copySize <= PayloadHi(p)
                       /\ p + copySize <= heap_end
                       /\ a.ret + copySize <= a.ret + SizeAt(a.m, HDRP(a.ret)) - OVERHEAD

\* C20 (every search terminates): in every reachable state the first-fit scan of
\* mm_malloc, for every request size, ends on a fit below heap_end or with the cursor
\* equal to heap_end: it neither runs on for ever (a block of size 0, or a cycle of
\* blocks) nor steps past heap_end, and no call has been left hanging in the scan.
C20_SearchTerminates ==
    /\ status # "hang"
    /\ status = "run" =>
          \A size \in Sizes :
              LET f == find_fit(mem, heap_end, Adjust(size))
              IN  /\ f.res \in {"none", "fit", "indet"}
                  /\ heap_start <= f.bp /\ f.bp <= heap_end
                  /\ f.res = "fit" => f.bp < heap_end

(* ---- the adjusted size, for every request size ---- *)
\* a request of any size of the size word is made on the empty heap: mm_malloc computes
\* asize, find_fit finds nothing and extend_heap(asize / WSIZE) asks mem_sbrk for incr
\* bytes
InitAdjust ==
    /\ Init
    /\ mem[0] = 0
AskAdjust(size) ==
    /\ last.op \in {"init", "asked"}
    /\ last' = [op |-> "asked", size |-> size, asize |-> Adjust(size),
                incr |-> ExtendSize(Adjust(size) \div WSIZE)]
    /\ UNCHANGED <<mem, mem_brk, heap_end, live, status, calls, wrapped>>
NextAdjust == \E size \in Word : AskAdjust(size)
SpecAdjust == InitAdjust /\ [][NextAdjust]_vars

RoundUp8(n) == ((n + 7) \div 8) * 8

\* C16 (adjusted size formula): for every requested size with size + 15 not above
\* the word maximum, asize is 16 when size <= 8 and 8 + (size rounded up to a
\* multiple of 8) otherwise, which is the smallest multiple of 8 that is >= size + 8
\* and >= 16; and the bytes asked of the growth primitive are exactly asize.
C16_AdjustedSize ==
    (last.op = "asked" /\ last.size + 15 <= WordMod - 1) =>
        /\ last.asize = IF last.size <= 8 THEN 16 ELSE 8 + RoundUp8(last.size)
        /\ last.asize % 8 = 0 /\ last.asize >= last.size + 8 /\ last.asize >= 16
        /\ \A k \in 0 .. (last.asize - 1) : ~(k % 8 = 0 /\ k >= last.size + 8 /\ k >= 16)
        /\ last.incr = last.asize

\* a request of 9 bytes, the smallest that is rounded up to the next multiple of 8
C16_Witness == last.op = "asked" /\ last.size = 9 /\ last.asize = 24 /\ last.incr = 24

====
